---- MODULE Spec2Model ----
(***************************************************************************)
(* Peer runtime of fungi (src/fungi/client/client.py), its datagram        *)
(* endpoint (src/fungi/client/udp.py) and the signaling registry           *)
(* (src/fungi/server/api.py, src/fungi/server/service.py).                 *)
(*                                                                         *)
(* Every coroutine is cut at its suspension points: one action per         *)
(* segment that runs without yielding to the event loop.                   *)
(***************************************************************************)
EXTENDS Integers, FiniteSets, Sequences, TLC

Peers == {"A", "B"}

\* Number of distinct reflexive ports the STUN server may report for a peer.
NumPorts == 2

\* Number of connect_to calls a driver issues per peer; the calls may overlap.
MaxConnects == 2

\* Number of send_message calls a driver issues per peer.
MaxSends == 1

\* Number of datagrams a remote peer sends to a runtime that opens no session.
MaxDatagrams == 2

\* Number of messages handed to one run of _listen_for_connection.
MaxMessages == 2

\* Number of requests other users of the registry make.
MaxRequests == 2

\* client.py:182  for _ in range(30)
PunchAttempts == 30

\* Python None for an Optional[IPvAnyAddress] / Optional[int] field.
NoIp == "<None>"
NoPort == -1

\* Node() defaults (models/node.py:11-12).
DefaultLocalIp == "127.0.0.1"
DefaultLocalPort == 0

\* Local fields of a record that was not built by Node().
OtherLocalIp == "192.168.0.7"
OtherLocalPort == 4000

\* client.py:322  self._send_socket.bind((local_ip, 0)): the send socket gets
\* a port of its own, which is not the port the endpoint listens on.
SendSocketPort == 50000

\* Ports the operating system may pick for a socket bound to port 0.
EphemeralPorts == {50001, 50002}

\* Payloads a driver hands to send_message.
AppMessages == {"hello"}

\* Payloads of the datagrams a remote peer sends to an endpoint: a pong or a
\* payload of neither grammar while sessions are open, a payload of neither
\* grammar or a punch otherwise.
SessionPayloads == {"pong", "hello"}
HostilePayloads == {"hello", "punch:10.0.0.2:1"}

Ip(p) == IF p = "A" THEN "10.0.0.1" ELSE "10.0.0.2"

\* Reflexive ports a peer's NAT may map its endpoint to: A's NAT may remap,
\* B's mapping is stable.
StunPorts(p) == IF p = "A" THEN 1..NumPorts ELSE {1}
PublicPairs(p) == {<<Ip(p), port>> : port \in StunPorts(p)}

----------------------------------------------------------------------------
(* models/node.py *)

Node(public_ip, public_port) ==
    [local_ip |-> DefaultLocalIp, local_port |-> DefaultLocalPort,
     public_ip |-> public_ip, public_port |-> public_port]

\* Node.model_dump(mode="json"): all four fields, addresses as text.
ModelDump(n) ==
    [local_ip |-> n.local_ip, local_port |-> n.local_port,
     public_ip |-> n.public_ip, public_port |-> n.public_port]

\* str() of an optional address / port, as used in f-strings.
IpStr(ip) == IF ip = NoIp THEN "None" ELSE ip
PortStr(port) == IF port = NoPort THEN "None" ELSE ToString(port)

\* Node.__eq__ (node.py:39-52)
NodeEq(a, b) ==
    /\ IpStr(a.public_ip) = IpStr(b.public_ip)
    /\ a.public_port = b.public_port
    /\ a.local_ip = b.local_ip
    /\ a.local_port = b.local_port

\* Python truthiness of the two optional fields and of a tuple.
IpTruthy(ip) == ip # NoIp
PortTruthy(port) == port # NoPort /\ port # 0
TupleTruthy(t) == Len(t) > 0

----------------------------------------------------------------------------
(* server/service.py and server/api.py: the store is a Redis hash, modelled *)
(* as a set of [key, data] records with at most one record per key.         *)

NodeKey(n) == IpStr(n.public_ip) \o ":" \o PortStr(n.public_port)

\* A store that appends instead of writing under the key.
AddNodeToStorageAppend(store, n) ==
    store \cup {[key |-> NodeKey(n), data |-> ModelDump(n)]}

AddNodeToStorage(store, n) ==
    {e \in store : e.key # NodeKey(n)} \cup {[key |-> NodeKey(n), data |-> ModelDump(n)]}

RemoveNodeFromStorage(store, n) == {e \in store : e.key # NodeKey(n)}

\* Public methods of NetworkService (service.py:59-81).
NetworkServiceMethods == {"add_node", "remove_node", "list_nodes"}

\* POST /nodes: every field of Node is optional, so any body validates.
ApiAddNode(store, body) ==
    [store |-> AddNodeToStorage(store, body), status |-> 201]

\* DELETE /nodes: public_ip and public_port are required query parameters
\* (Query(...)); an absent value is rejected before the handler runs.
ApiRemoveNode(store, params) ==
    IF params.public_ip = NoIp \/ params.public_port = NoPort
    THEN [store |-> store, status |-> 422]
    ELSE [store |-> RemoveNodeFromStorage(store, Node(params.public_ip, params.public_port)),
          status |-> 204]

\* PUT /nodes: the handler calls network_service.update_node, which
\* NetworkService does not define; the AttributeError is not among the
\* caught exceptions and becomes a 500.
ApiUpdateNode(store, body) ==
    IF "update_node" \in NetworkServiceMethods
    THEN [store |-> AddNodeToStorage(store, body), status |-> 200]
    ELSE [store |-> store, status |-> 500]

\* service.py:46-57, 75-81: list_nodes loads every stored record.
LoadNodesFromStorage(store) == {e.data : e \in store}

\* GET /nodes
ApiGetNodes(store) ==
    [store |-> store, status |-> 200, nodes |-> LoadNodesFromStorage(store)]

\* raise_for_status that lets every status through.
RaiseForStatusNever(status) == FALSE

\* httpx Response.raise_for_status
RaiseForStatus(status) == status >= 400

\* What the client sees of one exchange: the store afterwards and the status.
Exchange(h, handled, store) ==
    IF h = "ok" THEN handled ELSE [store |-> store, status |-> 500]

----------------------------------------------------------------------------
(* client/udp.py *)

\* Methods of UDPServer.
UDPServerMethods ==
    {"connection_made", "datagram_received", "send_message",
     "set_connection_callback", "start", "stop"}

\* Whether the object stored as UDPServer._message_handler can be called.
Callable(handler) == handler = "handle_incoming_message"

\* str.startswith
StartsWith(s, prefix) == Len(s) >= Len(prefix) /\ SubSeq(s, 1, Len(prefix)) = prefix

\* The two payloads the client emits (client.py:155, client.py:184).
PongMessage == "pong"
PunchMessage(n) == "punch:" \o IpStr(n.public_ip) \o ":" \o PortStr(n.public_port)

----------------------------------------------------------------------------
(* State *)

VARIABLES
    scenario,           \* the environment of the run, fixed at the start
    node,               \* Client._node, per peer
    server_status,      \* Client._server_status
    transport,          \* TRUE iff Client._transport is set (endpoint open)
    bound_port,         \* local port the open endpoint is bound to, NoPort when there is none
    send_socket,        \* Client._send_socket: "fresh", "bound" or "closed"
    udp_server,         \* "none", or what Client._udp_server holds as its message handler
    response_received,  \* Client._response_received (asyncio.Event)
    pc,                 \* where the driver's current join/leave call is suspended
    call,               \* locals of that call
    result,             \* what the last call on the client returned or raised
    ka,                 \* where the keep_alive task is suspended
    ka_req,             \* body of the PUT the keep_alive task is waiting on
    ka_stun,            \* what the last STUN probe of the keep_alive task returned
    session,            \* per connect_to call: where it is suspended, its argument, its outcome
    recv_task,          \* per connect_to call, its receive_task
    punch_task,         \* per connect_to call, its punch_task
    punches,            \* per connect_to call, punches emitted by its punch_task
    connects,           \* connect_to calls made so far
    sends,              \* send_message calls made so far by the driver
    registry,           \* the registry's store
    net,                \* datagrams in flight
    emitted,            \* per peer, log of the datagrams it has put on the wire
    delivered,          \* per peer, log of the datagrams delivered to its endpoint
    last_response,      \* per peer, status of the last HTTP response its call received
    written,            \* per peer, registry keys its accepted POST/PUT requests carried
    listed,             \* per peer, the records its last get_nodes call returned
    request,            \* the last request another user of the registry made, its answer,
                        \* and whether its key was registered when it was made
    requests,           \* number of requests other users of the registry have made
    listen              \* one run of _listen_for_connection on its own, fed with messages

vars == <<scenario, node, server_status, transport, bound_port, send_socket, udp_server,
          response_received, pc, call, result, ka, ka_req, ka_stun, session, recv_task,
          punch_task,
          punches, connects, sends, registry, net, emitted, delivered, last_response, written,
          listed, request, requests, listen>>

clientVars == <<scenario, node, server_status, transport, bound_port, send_socket, udp_server,
                response_received>>
kaVars == <<ka, ka_req, ka_stun>>
sessionVars == <<session, recv_task, punch_task, punches, connects, sends>>
wireVars == <<net, emitted, delivered>>
envVars == <<registry, written, last_response>>
dirVars == <<listed, request, requests>>

NoNode == Node(NoIp, NoPort)
NoStun == [ok |-> FALSE, ip |-> NoIp, port |-> NoPort, source_port |-> NoPort]
NoProbe == [ok |-> FALSE, ip |-> NoIp, port |-> NoPort, seen |-> FALSE]
NoCall == [data |-> ModelDump(NoNode), stun |-> NoStun]

\* One slot per connect_to call. pc: "none" (not called), "connect_wait"
\* (suspended in asyncio.wait) or "returned"; pre: whether caller and target
\* were both joined at the call; pong_at: position in the delivered log of the
\* first pong delivered while the call was suspended, 0 if none.
Sessions == 1..MaxConnects
NoListen ==
    [pc |-> "none", timeout |-> 0, target |-> <<NoIp, NoPort>>, elapsed |-> 0, waited |-> 0,
     received |-> 0, msg |-> [payload |-> "", src |-> <<NoIp, NoPort>>], replies |-> <<>>]
NoSession == [pc |-> "none", target |-> NoNode, pre |-> FALSE, status |-> "none", pong_at |-> 0]
NoResult == [op |-> "none", status |-> "none", msg |-> "none", pre |-> FALSE]

\* last_response before any response, and when the request raised
\* httpx.RequestError instead of being answered.
NoResponse == 0
RequestError == -1
NoRequest ==
    [method |-> "none", body |-> ModelDump(NoNode), status |-> NoResponse, existed |-> FALSE]

Result(op, status, msg) == [op |-> op, status |-> status, msg |-> msg, pre |-> FALSE]

\* The peer a public pair routes to, if any.
Owner(ip, port) == {q \in Peers : <<ip, port>> \in PublicPairs(q)}

\* Four environments are explored. "solo": peer A is driven alone through
\* join_network, leave_network and one connect_to, and its environment
\* misbehaves (STUN may fail or report a new port, the registry may be down
\* or unreachable, the local port may be taken). "send": A is driven through
\* join_network, leave_network and send_message; no faults. "overlap": A is
\* driven through join_network and connect_to calls that may overlap, while B
\* is a remote peer, not running this client, that sends datagrams from its
\* public pair; no faults. "pair": A and B are both driven through
\* join_network and one connect_to, in an environment without faults or NAT
\* remapping.
Scenarios == {"solo", "send", "overlap", "pair", "registry", "hostile"}
Driven == IF scenario = "pair" THEN Peers ELSE {"A"}
DriverOps ==
    IF scenario = "solo" THEN {"join_network", "leave_network", "connect_to"}
    ELSE IF scenario = "send" THEN {"join_network", "leave_network", "send_message"}
    ELSE IF scenario = "registry" THEN {"join_network", "get_nodes"}
    ELSE IF scenario = "hostile" THEN {"join_network"}
    ELSE {"join_network", "connect_to"}
Remotes == IF scenario \in {"overlap", "hostile"} THEN {"B"} ELSE {}
RemotePayloads == IF scenario = "hostile" THEN HostilePayloads ELSE SessionPayloads
\* While sessions are open the remote peer sends a single datagram.
RemoteLimit == IF scenario = "hostile" THEN MaxDatagrams ELSE 1
RegistryUsers == IF scenario = "registry" THEN {"B"} ELSE {}
ConnectLimit == IF scenario = "overlap" THEN MaxConnects ELSE 1
Faulty == IF scenario = "solo" THEN {"A"} ELSE {}

\* Ports the operating system may give to a socket of peer p bound to port 0:
\* any ephemeral port that no open socket of p holds.
OsPorts(p) == EphemeralPorts \ {bound_port[p]}

\* The port the endpoint gets when it is bound to port 0. Ephemeral ports are
\* interchangeable, so the endpoint is given the first free one and the other
\* sockets (the STUN probes) range over all of OsPorts.
EndpointPort(p) == CHOOSE port \in OsPorts(p) : \A other \in OsPorts(p) : port <= other

\* Source port of a STUN probe: stun.get_ip_info(source_port=self._node.local_port)
\* (client.py:285-290) binds its own socket to that port.
ProbePorts(p) == IF node[p].local_port = 0 THEN OsPorts(p) ELSE {node[p].local_port}

\* Outcomes of stun.get_ip_info run in the executor: an exception, or a
\* reflexive pair, with the source port the probe was sent from.
StunOutcomes(p) ==
    IF p \in Faulty
    THEN {NoStun}
            \cup {[ok |-> TRUE, ip |-> Ip(p), port |-> port, source_port |-> source_port] :
                    port \in StunPorts(p), source_port \in ProbePorts(p)}
    ELSE {[ok |-> TRUE, ip |-> Ip(p), port |-> 1, source_port |-> source_port] :
            source_port \in ProbePorts(p)}

\* Outcomes of one HTTP exchange with the registry: the handler ran, the
\* server answered 5xx without running it to the end (storage down), or the
\* request never got through (httpx.RequestError).
HttpOutcomes(p) == IF p \in Faulty THEN {"ok", "server_error", "request_error"} ELSE {"ok"}

\* Whether the local port is free when the endpoint is created.
BindOutcomes(p) == IF p \in Faulty THEN BOOLEAN ELSE {TRUE}

\* Client.__init__ (client.py:32-39)
Constructed ==
    /\ node = [p \in Peers |-> NoNode]
    /\ server_status = [p \in Peers |-> FALSE]
    /\ transport = [p \in Peers |-> FALSE]
    /\ bound_port = [p \in Peers |-> NoPort]
    /\ send_socket = [p \in Peers |-> "fresh"]
    /\ udp_server = [p \in Peers |-> "none"]
    /\ response_received = [p \in Peers |-> FALSE]
    /\ pc = [p \in Peers |-> "idle"]
    /\ call = [p \in Peers |-> NoCall]
    /\ result = [p \in Peers |-> NoResult]
    /\ ka = [p \in Peers |-> "none"]
    /\ ka_req = [p \in Peers |-> ModelDump(NoNode)]
    /\ ka_stun = [p \in Peers |-> NoProbe]
    /\ session = [p \in Peers |-> [s \in Sessions |-> NoSession]]
    /\ recv_task = [p \in Peers |-> [s \in Sessions |-> "none"]]
    /\ punch_task = [p \in Peers |-> [s \in Sessions |-> "none"]]
    /\ punches = [p \in Peers |-> [s \in Sessions |-> 0]]
    /\ connects = [p \in Peers |-> 0]
    /\ sends = [p \in Peers |-> 0]
    /\ registry = {}
    /\ net = {}
    /\ emitted = [p \in Peers |-> <<>>]
    /\ delivered = [p \in Peers |-> <<>>]
    /\ last_response = [p \in Peers |-> NoResponse]
    /\ written = [p \in Peers |-> {}]
    /\ listed = [p \in Peers |-> {}]
    /\ request = NoRequest
    /\ requests = 0

Init ==
    /\ scenario \in Scenarios
    /\ Constructed
    /\ listen = NoListen

----------------------------------------------------------------------------
(* Client helpers *)

\* _discover_public_ip_and_port (client.py:264-276): always a 2-tuple.
DiscoverPublicIpAndPort(o) ==
    IF o.ok THEN <<o.ip, o.port>> ELSE <<NoIp, NoPort>>

\* A prerequisite check that lets every call through.
ValidateConnectionPrerequisitesAlways(p, other_node) == TRUE

\* A prerequisite check that looks at the target only.
ValidateConnectionPrerequisitesTargetOnly(p, other_node) ==
    IpTruthy(other_node.public_ip) /\ PortTruthy(other_node.public_port)

\* _validate_connection_prerequisites (client.py:293-309)
ValidateConnectionPrerequisites(p, other_node) ==
    /\ IpTruthy(node[p].public_ip) /\ PortTruthy(node[p].public_port)
    /\ IpTruthy(other_node.public_ip) /\ PortTruthy(other_node.public_port)
    /\ transport[p]

\* _start_server (client.py:311-334); bind_ok says whether the local port is
\* free.
StartServer(p, bind_ok) ==
    IF server_status[p]
    THEN [status |-> "success", msg |-> "already_running",
          send_socket |-> send_socket[p], udp_server |-> udp_server[p],
          transport |-> transport[p], bound_port |-> bound_port[p],
          server_status |-> server_status[p]]
    ELSE IF send_socket[p] # "fresh"
    THEN \* bind() on a socket that is already bound or closed: OSError
         [status |-> "fail", msg |-> "send_socket_bind_failed",
          send_socket |-> send_socket[p], udp_server |-> udp_server[p],
          transport |-> transport[p], bound_port |-> bound_port[p],
          server_status |-> server_status[p]]
    ELSE IF ~bind_ok
    THEN \* create_datagram_endpoint: OSError
         [status |-> "fail", msg |-> "local_port_in_use",
          send_socket |-> "bound", udp_server |-> "send_socket",
          transport |-> transport[p], bound_port |-> bound_port[p],
          server_status |-> server_status[p]]
    ELSE [status |-> "success", msg |-> "joined",
          send_socket |-> "bound", udp_server |-> "send_socket",
          transport |-> TRUE,
          bound_port |-> IF node[p].local_port = 0 THEN EndpointPort(p)
                         ELSE node[p].local_port,
          server_status |-> TRUE]

\* _stop_server (client.py:336-352)
StopServer(p) ==
    IF ~server_status[p]
    THEN [status |-> "success", send_socket |-> send_socket[p], transport |-> transport[p],
          bound_port |-> bound_port[p]]
    ELSE [status |-> "success", send_socket |-> "closed", transport |-> FALSE,
          bound_port |-> NoPort]

\* Kind of a payload, as the receiver's dispatch tells them apart.
Kind(message) ==
    IF StartsWith(message, "punch") THEN "punch"
    ELSE IF StartsWith(message, "pong") THEN "pong" ELSE "other"

\* send_message (client.py:191-207): what it returns, the datagrams it puts
\* on the wire and the state it leaves the send socket in. sendto on a closed
\* socket raises OSError, which is caught; sendto on a socket that was never
\* bound makes the operating system bind it first.
SendMessage(p, message, ip, port) ==
    IF send_socket[p] = "closed"
    THEN [status |-> "error", dgrams |-> {}, send_socket |-> send_socket[p]]
    ELSE [status |-> "success",
          dgrams |-> {[payload |-> message, src |-> <<Ip(p), SendSocketPort>>,
                       source_port |-> SendSocketPort, dst |-> <<ip, port>>,
                       seq |-> Len(emitted[p])]},
          send_socket |-> "bound"]

\* Number of datagrams of a kind in a log.
Count(log, kind) == Cardinality({i \in DOMAIN log : Kind(log[i].payload) = kind})

Emit(p, dgrams) ==
    /\ net' = net \cup dgrams
    /\ emitted' = [emitted EXCEPT ![p] =
                     IF dgrams = {} THEN @
                     ELSE Append(@, CHOOSE d \in dgrams : TRUE)]

----------------------------------------------------------------------------
(* join_network (client.py:41-74) *)

\* A joined test that never holds.
AlreadyJoinedNever(p) == FALSE

\* client.py:47  if self._server_status
AlreadyJoined(p) == server_status[p]

\* Entry: the already-joined early return, or the STUN probe is dispatched.
JoinNetwork(p) ==
    /\ p \in Driven
    /\ "join_network" \in DriverOps
    /\ pc[p] = "idle"
    /\ IF AlreadyJoined(p)
       THEN /\ result' = [result EXCEPT ![p] = Result("join_network", "success", "already_joined")]
            /\ UNCHANGED <<pc, call>>
       ELSE /\ pc' = [pc EXCEPT ![p] = "join_stun"]
            /\ result' = [result EXCEPT ![p] = NoResult]
            /\ UNCHANGED call
    /\ last_response' = [last_response EXCEPT ![p] = NoResponse]
    /\ UNCHANGED <<listen, dirVars, clientVars, kaVars, sessionVars, wireVars, registry, written>>

\* The probe returns; `if not await self._discover_public_ip_and_port()` tests
\* the returned tuple; then node_data is dumped and the POST is sent.
JoinDiscovered(p) ==
    /\ pc[p] = "join_stun"
    /\ \E o \in StunOutcomes(p) :
         IF ~TupleTruthy(DiscoverPublicIpAndPort(o))
         THEN /\ pc' = [pc EXCEPT ![p] = "idle"]
              /\ call' = [call EXCEPT ![p] = NoCall]
              /\ result' = [result EXCEPT ![p] = Result("join_network", "fail", "discovery_failed")]
         ELSE /\ pc' = [pc EXCEPT ![p] = "join_post"]
              /\ call' = [call EXCEPT ![p].stun = o, ![p].data = ModelDump(node[p])]
              /\ UNCHANGED result
    /\ UNCHANGED <<listen, dirVars, clientVars, kaVars, sessionVars, wireVars, registry, written, last_response>>

\* The POST completes.
JoinInsertResponse(p) ==
    /\ pc[p] = "join_post"
    /\ \E h \in HttpOutcomes(p) :
         IF h = "request_error"
         THEN /\ pc' = [pc EXCEPT ![p] = "idle"]
              /\ call' = [call EXCEPT ![p] = NoCall]
              /\ result' = [result EXCEPT ![p] = Result("join_network", "fail", "request_error")]
              /\ last_response' = [last_response EXCEPT ![p] = RequestError]
              /\ UNCHANGED <<registry, written>>
         ELSE LET resp == Exchange(h, ApiAddNode(registry, call[p].data), registry) IN
              /\ registry' = resp.store
              /\ last_response' = [last_response EXCEPT ![p] = resp.status]
              /\ IF RaiseForStatus(resp.status)
                 THEN /\ pc' = [pc EXCEPT ![p] = "idle"]
                      /\ call' = [call EXCEPT ![p] = NoCall]
                      /\ result' = [result EXCEPT ![p] =
                                      Result("join_network", "fail", "http_status_error")]
                      /\ UNCHANGED written
                 ELSE /\ pc' = [pc EXCEPT ![p] = "join_start"]
                      /\ written' = [written EXCEPT ![p] = @ \cup {NodeKey(call[p].data)}]
                      /\ UNCHANGED <<result, call>>
    /\ UNCHANGED <<listen, dirVars, clientVars, kaVars, sessionVars, wireVars>>

\* _start_server runs; on success the keep_alive task is created.
JoinStartServer(p) ==
    /\ pc[p] = "join_start"
    /\ \E bind_ok \in BindOutcomes(p) :
         LET start_result == StartServer(p, bind_ok) IN
         /\ send_socket' = [send_socket EXCEPT ![p] = start_result.send_socket]
         /\ udp_server' = [udp_server EXCEPT ![p] = start_result.udp_server]
         /\ transport' = [transport EXCEPT ![p] = start_result.transport]
         /\ bound_port' = [bound_port EXCEPT ![p] = start_result.bound_port]
         /\ server_status' = [server_status EXCEPT ![p] = start_result.server_status]
         /\ IF start_result.status # "success"
            THEN /\ result' = [result EXCEPT ![p] =
                                 Result("join_network", "fail", start_result.msg)]
                 /\ UNCHANGED ka
            ELSE /\ result' = [result EXCEPT ![p] = Result("join_network", "success", "joined")]
                 /\ ka' = [ka EXCEPT ![p] = "ready"]
    /\ pc' = [pc EXCEPT ![p] = "idle"]
    /\ call' = [call EXCEPT ![p] = NoCall]
    /\ UNCHANGED <<listen, dirVars, scenario, node, response_received, ka_req, ka_stun, sessionVars, wireVars,
                   registry, written, last_response>>

----------------------------------------------------------------------------
(* leave_network (client.py:76-108) *)

\* A not-joined test that never holds.
NotJoinedNever(p) == FALSE

\* client.py:82  if not self._server_status
NotJoined(p) == ~server_status[p]

\* Entry: the not-joined early return, or params are dumped and the DELETE sent.
LeaveNetwork(p) ==
    /\ p \in Driven
    /\ "leave_network" \in DriverOps
    /\ pc[p] = "idle"
    /\ IF NotJoined(p)
       THEN /\ result' = [result EXCEPT ![p] = Result("leave_network", "success", "not_joined")]
            /\ UNCHANGED <<pc, call>>
       ELSE /\ pc' = [pc EXCEPT ![p] = "leave_delete"]
            /\ call' = [call EXCEPT ![p] = [NoCall EXCEPT !.data = ModelDump(node[p])]]
            /\ result' = [result EXCEPT ![p] = NoResult]
    /\ last_response' = [last_response EXCEPT ![p] = NoResponse]
    /\ UNCHANGED <<listen, dirVars, clientVars, kaVars, sessionVars, wireVars, registry, written>>

\* The DELETE completes; _stop_server runs only on the 2xx path; the finally
\* clause clears _server_status on every path.
LeaveDeleteResponse(p) ==
    /\ pc[p] = "leave_delete"
    /\ \E h \in HttpOutcomes(p) :
         IF h = "request_error"
         THEN /\ result' = [result EXCEPT ![p] = Result("leave_network", "fail", "request_error")]
              /\ last_response' = [last_response EXCEPT ![p] = RequestError]
              /\ UNCHANGED <<registry, transport, bound_port, send_socket>>
         ELSE LET resp == Exchange(h, ApiRemoveNode(registry, call[p].data), registry) IN
              /\ registry' = resp.store
              /\ last_response' = [last_response EXCEPT ![p] = resp.status]
              /\ IF RaiseForStatus(resp.status)
                 THEN /\ result' = [result EXCEPT ![p] =
                                      Result("leave_network", "fail", "http_status_error")]
                      /\ UNCHANGED <<transport, bound_port, send_socket>>
                 ELSE LET stop_result == StopServer(p) IN
                      /\ transport' = [transport EXCEPT ![p] = stop_result.transport]
                      /\ bound_port' = [bound_port EXCEPT ![p] = stop_result.bound_port]
                      /\ send_socket' = [send_socket EXCEPT ![p] = stop_result.send_socket]
                      /\ result' = [result EXCEPT ![p] = Result("leave_network", "success", "left")]
    /\ server_status' = [server_status EXCEPT ![p] = FALSE]
    /\ pc' = [pc EXCEPT ![p] = "idle"]
    /\ call' = [call EXCEPT ![p] = NoCall]
    /\ UNCHANGED <<listen, dirVars, scenario, node, udp_server, response_received, kaVars, sessionVars, wireVars, written>>

----------------------------------------------------------------------------
(* keep_alive (client.py:228-242) and _update_node_info (client.py:244-252) *)

\* A loop test that always passes.
KeepAliveContinuesAlways(p) == TRUE

\* client.py:232  while self._server_status
KeepAliveContinues(p) == server_status[p]

\* The while test, at task start and after each sleep; the probe is dispatched.
KeepAliveTick(p) ==
    /\ ka[p] = "ready"
    /\ ka' = [ka EXCEPT ![p] = IF KeepAliveContinues(p) THEN "stun" ELSE "done"]
    /\ UNCHANGED <<listen, dirVars, clientVars, ka_req, ka_stun, pc, call, result, sessionVars, wireVars, envVars>>

\* A changed test that always passes, and one that never does.
PairChangedAlways(p, new_ip, new_port) == TRUE
PairChangedNever(p, new_ip, new_port) == FALSE

\* client.py:234-238: the probe returned a pair and it is not the stored one.
PairChanged(p, new_ip, new_port) ==
    /\ new_ip # NoIp
    /\ new_port # NoPort
    /\ (new_ip # node[p].public_ip \/ new_port # node[p].public_port)

\* The probe returns; on a changed pair the record is set and the PUT is sent.
KeepAliveDiscovered(p) ==
    /\ ka[p] = "stun"
    /\ \E o \in StunOutcomes(p) :
         LET new == DiscoverPublicIpAndPort(o)
             new_ip == new[1]
             new_port == new[2]
         IN /\ ka_stun' = [ka_stun EXCEPT ![p] =
                             [ok |-> o.ok, ip |-> o.ip, port |-> o.port, seen |-> TRUE]]
            /\ IF PairChanged(p, new_ip, new_port)
               THEN /\ node' = [node EXCEPT ![p].public_ip = new_ip, ![p].public_port = new_port]
                    /\ ka_req' = [ka_req EXCEPT ![p] = ModelDump(node'[p])]
                    /\ ka' = [ka EXCEPT ![p] = "put"]
               ELSE /\ ka' = [ka EXCEPT ![p] = "ready"]
                    /\ UNCHANGED <<node, ka_req>>
    /\ UNCHANGED <<listen, dirVars, scenario, server_status, transport, bound_port, send_socket, udp_server,
                   response_received, pc, call, result, sessionVars, wireVars, envVars>>

\* The PUT completes; its status is not looked at; the task goes to sleep.
KeepAliveUpdateResponse(p) ==
    /\ ka[p] = "put"
    /\ \E h \in HttpOutcomes(p) :
         IF h = "request_error"
         THEN UNCHANGED <<registry, written>>
         ELSE LET resp == Exchange(h, ApiUpdateNode(registry, ka_req[p]), registry) IN
              /\ registry' = resp.store
              /\ written' = [written EXCEPT ![p] =
                               IF RaiseForStatus(resp.status) THEN @ ELSE @ \cup {NodeKey(ka_req[p])}]
    /\ ka' = [ka EXCEPT ![p] = "ready"]
    /\ ka_req' = [ka_req EXCEPT ![p] = ModelDump(NoNode)]
    /\ UNCHANGED <<listen, dirVars, clientVars, ka_stun, pc, call, result, sessionVars, wireVars, last_response>>

----------------------------------------------------------------------------
(* connect_to (client.py:110-140) *)

\* Entry of get_nodes: the GET is sent.
GetNodes(p) ==
    /\ p \in Driven
    /\ "get_nodes" \in DriverOps
    /\ pc[p] = "idle"
    /\ pc' = [pc EXCEPT ![p] = "get_nodes"]
    /\ last_response' = [last_response EXCEPT ![p] = NoResponse]
    /\ UNCHANGED <<listen, dirVars, clientVars, kaVars, call, result, sessionVars, wireVars, registry,
                   written>>

\* The GET completes: the records that are not equal to the own record are
\* returned, or the empty list after an error.
GetNodesResponse(p) ==
    /\ pc[p] = "get_nodes"
    /\ \E h \in HttpOutcomes(p) :
         IF h = "request_error"
         THEN /\ last_response' = [last_response EXCEPT ![p] = RequestError]
              /\ listed' = [listed EXCEPT ![p] = {}]
         ELSE LET resp == Exchange(h, ApiGetNodes(registry), registry) IN
              /\ last_response' = [last_response EXCEPT ![p] = resp.status]
              /\ listed' = [listed EXCEPT ![p] =
                              IF RaiseForStatus(resp.status)
                              THEN {}
                              ELSE {x \in resp.nodes : ~NodeEq(x, node[p])}]
    /\ pc' = [pc EXCEPT ![p] = "idle"]
    /\ UNCHANGED <<listen, clientVars, kaVars, call, result, sessionVars, wireVars, registry, written,
                   request, requests>>

\* Records another user of the registry may send: the pair of peer A with
\* the default or with other local fields, and the pair of peer B.
UserRecords ==
    {ModelDump(Node(Ip("A"), 1)),
     [ModelDump(Node(Ip("A"), 1)) EXCEPT !.local_ip = OtherLocalIp, !.local_port = OtherLocalPort],
     ModelDump(Node(Ip("B"), 1))}

\* Another user of the registry makes one request and gets its answer.
RegistryRequest ==
    /\ requests < MaxRequests
    /\ \E u \in RegistryUsers, method \in {"POST", "DELETE", "PUT"}, body \in UserRecords :
         LET resp == CASE method = "POST" -> ApiAddNode(registry, body)
                       [] method = "DELETE" -> ApiRemoveNode(registry, body)
                       [] method = "PUT" -> ApiUpdateNode(registry, body)
         IN /\ registry' = resp.store
            /\ request' = [method |-> method, body |-> body, status |-> resp.status,
                            existed |-> \E e \in registry : e.key = NodeKey(body)]
    /\ requests' = requests + 1
    /\ UNCHANGED <<listen, clientVars, kaVars, pc, call, result, sessionVars, wireVars, written,
                   last_response, listed>>

\* Nodes a driver may hand to connect_to: another peer's public pair, or a
\* node without one.
TargetNodes(p) ==
    {NoNode} \cup {Node(pair[1], pair[2]) : pair \in UNION {PublicPairs(q) : q \in Peers \ {p}}}

\* Whether other_node is the current record of a peer that is joined and
\* listening, the caller being joined too.
JoinedPair(p, other_node) ==
    /\ server_status[p]
    /\ \E q \in Peers \ {p} :
         /\ server_status[q] /\ transport[q]
         /\ node[q].public_ip = other_node.public_ip
         /\ node[q].public_port = other_node.public_port

\* Entry: the prerequisite check, then both tasks are created and the call
\* suspends in asyncio.wait. The driver may call while earlier connect_to
\* calls are still suspended, and may call leave_network before this call
\* has returned.
ConnectTo(p) ==
    /\ p \in Driven
    /\ "connect_to" \in DriverOps
    /\ pc[p] = "idle"
    /\ connects[p] < ConnectLimit
    /\ connects' = [connects EXCEPT ![p] = @ + 1]
    /\ LET s == connects[p] + 1 IN
       \E other_node \in TargetNodes(p) :
         IF ~ValidateConnectionPrerequisites(p, other_node)
         THEN /\ result' = [result EXCEPT ![p] = Result("connect_to", "fail", "prerequisites")]
              /\ UNCHANGED <<session, recv_task, punch_task, punches>>
         ELSE /\ session' = [session EXCEPT ![p][s] =
                               [NoSession EXCEPT !.pc = "connect_wait",
                                                 !.target = other_node,
                                                 !.pre = JoinedPair(p, other_node)]]
              /\ recv_task' = [recv_task EXCEPT ![p][s] = "ready"]
              /\ punch_task' = [punch_task EXCEPT ![p][s] = "ready"]
              /\ punches' = [punches EXCEPT ![p][s] = 0]
              /\ UNCHANGED result
    /\ UNCHANGED <<listen, dirVars, clientVars, kaVars, pc, call, sends, wireVars, envVars>>

\* _receive_message (client.py:162-173): how the first wait of
\* _listen_for_connection ends up.
ReceiveMessage(p) ==
    IF udp_server[p] = "none" THEN "RuntimeError"
    ELSE IF "set_message_callback" \in UDPServerMethods THEN "waiting"
    ELSE "AttributeError"

\* _listen_for_connection (client.py:142-160), first run of receive_task:
\* only asyncio.TimeoutError is caught, anything else ends the task.
ListenForConnection(p, s) ==
    /\ recv_task[p][s] = "ready"
    /\ recv_task' = [recv_task EXCEPT ![p][s] = ReceiveMessage(p)]
    /\ UNCHANGED <<listen, dirVars, clientVars, kaVars, pc, call, result, session, punch_task, punches,
                   connects, sends, wireVars, envVars>>

\* _send_punch_messages (client.py:175-189), one iteration up to the sleep.
\* punch_task is created after receive_task and has its first run after it.
SendPunchMessages(p, s) ==
    /\ punch_task[p][s] = "ready"
    /\ recv_task[p][s] # "ready"
    /\ punches[p][s] < PunchAttempts
    /\ LET other_node == session[p][s].target IN
       IF other_node.public_ip # NoIp /\ other_node.public_port # NoPort
       THEN LET sent == SendMessage(p, PunchMessage(node[p]),
                                    other_node.public_ip, other_node.public_port) IN
            /\ Emit(p, sent.dgrams)
            /\ send_socket' = [send_socket EXCEPT ![p] = sent.send_socket]
            /\ punches' = [punches EXCEPT ![p][s] = @ + 1]
            /\ punch_task' = [punch_task EXCEPT ![p][s] = "sleeping"]
       ELSE /\ punch_task' = [punch_task EXCEPT ![p][s] = "done"]
            /\ UNCHANGED <<net, emitted, punches, send_socket>>
    /\ UNCHANGED <<listen, dirVars, scenario, node, server_status, transport, bound_port, udp_server,
                   response_received, kaVars, pc, call, result, session, recv_task, connects,
                   sends, delivered, envVars>>

\* States in which a task counts as done for asyncio.wait.
DoneStates == {"success", "timeout", "AttributeError", "RuntimeError", "done"}

\* A cancellation that leaves the task as it is.
CancelPendingNever(task) == task

\* client.py:131-132: every task asyncio.wait reported pending is cancelled.
CancelPending(task) == IF task \in DoneStates THEN task ELSE "cancelled"

\* asyncio.wait returns (both tasks have had their first run by then, being
\* queued ahead of the wake-up); pending tasks are cancelled; the result of
\* receive_task is read, which re-raises its exception.
ConnectReturn(p, s) ==
    /\ session[p][s].pc = "connect_wait"
    /\ recv_task[p][s] # "ready"
    /\ punch_task[p][s] # "ready"
    /\ {recv_task[p][s], punch_task[p][s]} \cap DoneStates # {}
    /\ LET raised == recv_task[p][s] \in {"AttributeError", "RuntimeError"}
           status == IF raised THEN "raise"
                     ELSE IF recv_task[p][s] = "success" THEN "success" ELSE "fail"
       IN /\ result' = [result EXCEPT ![p] =
                          [op |-> "connect_to",
                           status |-> status,
                           msg |-> IF raised THEN recv_task[p][s]
                                   ELSE IF recv_task[p][s] = "success" THEN "established"
                                   ELSE "connection_failed",
                           pre |-> session[p][s].pre]]
          /\ session' = [session EXCEPT ![p][s].pc = "returned", ![p][s].status = status]
    /\ recv_task' = [recv_task EXCEPT ![p][s] = CancelPending(@)]
    /\ punch_task' = [punch_task EXCEPT ![p][s] = CancelPending(@)]
    /\ UNCHANGED <<listen, dirVars, clientVars, kaVars, pc, call, punches, connects, sends, wireVars, envVars>>

----------------------------------------------------------------------------
(* send_message called by the driver (client.py:191-207, app.py:118-133) *)

\* Addresses a driver may send to: the public pairs of the other peers.
SendTargets(p) == UNION {PublicPairs(q) : q \in Peers \ {p}}

\* The coroutine has no suspension point: the whole call is one step.
SendMessageCall(p) ==
    /\ p \in Driven
    /\ "send_message" \in DriverOps
    /\ pc[p] = "idle"
    /\ sends[p] < MaxSends
    /\ sends' = [sends EXCEPT ![p] = @ + 1]
    /\ \E message \in AppMessages, target \in SendTargets(p) :
         LET sent == SendMessage(p, message, target[1], target[2]) IN
         /\ Emit(p, sent.dgrams)
         /\ send_socket' = [send_socket EXCEPT ![p] = sent.send_socket]
         /\ result' = [result EXCEPT ![p] = Result("send_message", sent.status, message)]
    /\ UNCHANGED <<listen, dirVars, scenario, node, server_status, transport, bound_port, udp_server,
                   response_received, kaVars, pc, call, session, recv_task, punch_task,
                   punches, connects, delivered, envVars>>

----------------------------------------------------------------------------
(* The wire, and UDPServer.datagram_received (udp.py:29-37) *)

\* Pairs a remote peer may send to: those the runtimes currently advertise
\* in their punches.
AdvertisedPairs(p) ==
    {<<node[q].public_ip, node[q].public_port>> :
        q \in {r \in Peers \ {p} : node[r].public_ip # NoIp /\ node[r].public_port # NoPort}}

\* A remote peer sends a datagram from its public pair to the pair another
\* peer advertises.
RemoteDatagram(p) ==
    /\ p \in Remotes
    /\ sends[p] < RemoteLimit
    /\ sends' = [sends EXCEPT ![p] = @ + 1]
    /\ \E payload \in RemotePayloads, src \in PublicPairs(p), dst \in AdvertisedPairs(p) :
         net' = net \cup {[payload |-> payload, src |-> src, source_port |-> NoPort,
                           dst |-> dst, seq |-> sends[p]]}
    /\ UNCHANGED <<listen, dirVars, clientVars, kaVars, pc, call, result, session, recv_task, punch_task,
                   punches, connects, emitted, delivered, envVars>>

\* A datagram reaches the open endpoint of the peer its destination routes
\* to. The handler stored by _start_server is the send socket, which cannot be
\* called: the TypeError ends the callback and the event loop logs it. Every
\* connect_to call suspended at that moment notes the first pong delivered.
DatagramReceived(q) ==
    /\ transport[q]
    /\ \E d \in net :
         /\ q \in Owner(d.dst[1], d.dst[2])
         /\ net' = net \ {d}
         /\ delivered' = [delivered EXCEPT ![q] = Append(@, d)]
         /\ response_received' = [response_received EXCEPT ![q] =
                                    IF Callable(udp_server[q]) THEN TRUE ELSE @]
         /\ session' = [session EXCEPT ![q] =
                          [s \in Sessions |->
                             IF /\ d.payload = PongMessage
                                /\ @[s].pc = "connect_wait"
                                /\ @[s].pong_at = 0
                             THEN [@[s] EXCEPT !.pong_at = Len(delivered'[q])]
                             ELSE @[s]]]
    /\ UNCHANGED <<listen, dirVars, scenario, node, server_status, transport, bound_port, send_socket,
                   udp_server, kaVars, pc, call, result, recv_task, punch_task, punches,
                   connects, sends, emitted, envVars>>

\* A datagram whose destination has no open endpoint is lost.
DatagramDropped ==
    /\ \E d \in net :
         /\ \A q \in Owner(d.dst[1], d.dst[2]) : ~transport[q]
         /\ net' = net \ {d}
    /\ UNCHANGED <<listen, dirVars, clientVars, kaVars, pc, call, result, sessionVars, emitted, delivered,
                   envVars>>

----------------------------------------------------------------------------

Next ==
    \/ \E p \in Peers : JoinNetwork(p)
    \/ \E p \in Peers : JoinDiscovered(p)
    \/ \E p \in Peers : JoinInsertResponse(p)
    \/ \E p \in Peers : JoinStartServer(p)
    \/ \E p \in Peers : LeaveNetwork(p)
    \/ \E p \in Peers : LeaveDeleteResponse(p)
    \/ \E p \in Peers : KeepAliveTick(p)
    \/ \E p \in Peers : KeepAliveDiscovered(p)
    \/ \E p \in Peers : KeepAliveUpdateResponse(p)
    \/ \E p \in Peers : ConnectTo(p)
    \/ \E p \in Peers, s \in Sessions : ListenForConnection(p, s)
    \/ \E p \in Peers, s \in Sessions : SendPunchMessages(p, s)
    \/ \E p \in Peers, s \in Sessions : ConnectReturn(p, s)
    \/ \E p \in Peers : SendMessageCall(p)
    \/ \E p \in Peers : GetNodes(p)
    \/ \E p \in Peers : GetNodesResponse(p)
    \/ RegistryRequest
    \/ \E p \in Peers : RemoteDatagram(p)
    \/ \E q \in Peers : DatagramReceived(q)
    \/ DatagramDropped

Spec == Init /\ [][Next]_vars

----------------------------------------------------------------------------
(* _listen_for_connection (client.py:142-160) on its own: one run of the     *)
(* coroutine, each await of _receive_message answered by a message or cut   *)
(* short by the timer of its wait_for. Time advances in whole seconds.       *)

\* Timeouts a caller passes, in seconds.
ListenTimeouts == {1, 2}

\* Messages _receive_message may return, and the addresses they came from:
\* the target of the call and a third party.
ListenPayloads == {"pong", "pongX", "punch:10.0.0.2:1", "punchX", "hello"}
ThirdParty == <<"10.0.0.3", 1>>
ListenSources == PublicPairs("B") \cup {ThirdParty}

\* Number of ":" in a string, i.e. Len(message.split(":")) - 1.
RECURSIVE Colons(_, _)
Colons(s, i) ==
    IF i > Len(s) THEN 0
    ELSE (IF SubSeq(s, i, i) = ":" THEN 1 ELSE 0) + Colons(s, i + 1)

\* client.py:152-158: what one loop iteration does with a message. The punch
\* branch unpacks message.split(":")[1:] into two names, which raises
\* ValueError unless there are exactly two fields.
ListenDispatch(message) ==
    IF StartsWith(message, "punch")
    THEN IF Colons(message, 1) = 2 THEN "reply" ELSE "ValueError"
    ELSE IF StartsWith(message, "pong") THEN "success" ELSE "again"

\* The variables of the runtime, which a run of the coroutine on its own
\* leaves alone.
runtimeVars == <<clientVars, kaVars, sessionVars, wireVars, envVars, dirVars, pc, call, result>>

ListenInit ==
    /\ scenario = "listen"
    /\ Constructed
    /\ \E timeout \in ListenTimeouts, target \in PublicPairs("B") :
         listen = [NoListen EXCEPT !.pc = "waiting", !.timeout = timeout, !.target = target]

\* One second passes while wait_for is pending.
ListenTick ==
    /\ listen.pc = "waiting"
    /\ listen.waited < listen.timeout
    /\ listen' = [listen EXCEPT !.elapsed = @ + 1, !.waited = @ + 1]
    /\ UNCHANGED runtimeVars

\* The timer of the pending wait_for fires: asyncio.TimeoutError is caught
\* and the failure is returned (client.py:159-160).
ListenTimedOut ==
    /\ listen.pc = "waiting"
    /\ listen.waited = listen.timeout
    /\ listen' = [listen EXCEPT !.pc = "timeout"]
    /\ UNCHANGED runtimeVars

\* _receive_message returns a message before the timer fires; after a punch
\* or an unknown message the loop calls wait_for again with the full timeout.
ListenMessage ==
    /\ listen.pc = "waiting"
    /\ listen.waited < listen.timeout
    /\ listen.received < MaxMessages
    /\ \E payload \in ListenPayloads, src \in ListenSources :
         LET todo == ListenDispatch(payload)
             got == [listen EXCEPT !.received = @ + 1,
                                   !.msg = [payload |-> payload, src |-> src]]
         IN listen' =
              CASE todo = "reply" -> [got EXCEPT !.waited = 0, !.replies = Append(@, payload)]
                [] todo = "again" -> [got EXCEPT !.waited = 0]
                [] todo = "success" -> [got EXCEPT !.pc = "success"]
                [] todo = "ValueError" -> [got EXCEPT !.pc = "ValueError"]
    /\ UNCHANGED runtimeVars

ListenNext ==
    \/ ListenTick
    \/ ListenTimedOut
    \/ ListenMessage

ListenSpec == ListenInit /\ [][ListenNext]_vars

----------------------------------------------------------------------------
(* Properties *)

\* A response that makes the registry exchange a failure for the client.
FailedExchange(status) == status = RequestError \/ status >= 400

\* Registry entries stored under a key that peer p's accepted requests carried.
EntriesOf(store, p, keys) == {e \in store : e.key \in keys[p]}

\* connect_to has returned to peer p's driver, having been called while p and
\* the target were both joined, on the target's current public pair.
ConnectedWhileJoined(p) == result[p].op = "connect_to" /\ result[p].pre

\* C1: when two joined peers have each called connect_to on the other and
\* both calls are over, both calls returned success.
RoundTripSucceeds ==
    (\A p \in Peers : ConnectedWhileJoined(p))
        => \A p \in Peers : result[p].status = "success"

\* C2: when a joined peer has called connect_to on another joined peer that
\* itself never calls connect_to, and the call is over, the caller has been
\* delivered at least one pong and the call returned success.
PairwiseRendezvousSucceeds ==
    \A p \in Peers :
        (ConnectedWhileJoined(p) /\ \A q \in Peers \ {p} : connects[q] = 0)
            => /\ Count(delivered[p], "pong") >= 1
               /\ result[p].status = "success"

\* C3: a runtime has emitted exactly one pong per punch delivered to its
\* endpoint.
OnePongPerPunch ==
    \A q \in Peers : Count(emitted[q], "pong") = Count(delivered[q], "punch")

\* C4: every punch delivered to an endpoint has been answered by a pong
\* addressed to the observed source of that punch.
PongToObservedSource ==
    \A q \in Peers : \A i \in DOMAIN delivered[q] :
        Kind(delivered[q][i].payload) = "punch"
            => \E j \in DOMAIN emitted[q] :
                 /\ emitted[q][j].payload = PongMessage
                 /\ emitted[q][j].dst = delivered[q][i].src

\* C5: in the step in which join_network returns success after its STUN probe
\* returned a pair, the peer record holds that pair, and the registry entries
\* of this peer are exactly one, keyed by that pair.
JoinPublishesStunPair ==
    [][\A p \in Peers :
         (/\ pc[p] = "join_start" /\ pc'[p] = "idle"
          /\ result'[p].status = "success"
          /\ call[p].stun.ok)
            => /\ node'[p].public_ip = call[p].stun.ip
               /\ node'[p].public_port = call[p].stun.port
               /\ {e.key : e \in EntriesOf(registry', p, written')}
                    = {NodeKey(Node(call[p].stun.ip, call[p].stun.port))}]_vars

\* C6: in the step in which the endpoint fails to start during join_network,
\* the call returns failure, the registry holds no entry of this peer and the
\* runtime is off.
BindFailureRollsBack ==
    [][\A p \in Peers :
         (pc[p] = "join_start" /\ pc'[p] = "idle" /\ ~transport'[p])
            => /\ result'[p].status = "fail"
               /\ EntriesOf(registry', p, written') = {}
               /\ ~server_status'[p]]_vars

\* C7: in the step in which leave_network gets a registry failure (error
\* status or no answer), the endpoint is closed and the runtime is not joined.
LeaveStopsEndpointOnRegistryError ==
    [][\A p \in Peers :
         (pc[p] = "leave_delete" /\ FailedExchange(last_response'[p]))
            => /\ pc'[p] = "idle"
               /\ ~transport'[p]
               /\ ~server_status'[p]]_vars

\* C8: in the step in which leave_network returns success, the registry holds
\* no entry of this peer and the endpoint is closed.
LeaveRemovesEntry ==
    [][\A p \in Peers :
         (pc[p] = "leave_delete" /\ pc'[p] = "idle" /\ result'[p].status = "success")
            => /\ EntriesOf(registry', p, written') = {}
               /\ ~transport'[p]]_vars

\* C9: in the step in which the STUN probe of join_network fails, the call
\* returns failure and nothing else changes: no insert is sent, no endpoint
\* is bound, no keep-alive task exists and the runtime stays off.
DiscoveryFailureFailsJoin ==
    [][\A p \in Peers :
         (pc[p] = "join_stun" /\ pc'[p] # "join_stun" /\ ~call'[p].stun.ok)
            => /\ pc'[p] = "idle"
               /\ result'[p].status = "fail"
               /\ UNCHANGED <<registry, transport, ka, server_status>>]_vars

\* C10: in the step in which the insert of join_network fails (error status
\* or no answer), the call returns failure, the endpoint is not started, no
\* keep-alive task is created and the runtime stays off.
InsertFailureFailsJoin ==
    [][\A p \in Peers :
         (pc[p] = "join_post" /\ FailedExchange(last_response'[p]))
            => /\ pc'[p] = "idle"
               /\ result'[p].op = "join_network"
               /\ result'[p].status = "fail"
               /\ ~server_status'[p]
               /\ UNCHANGED <<transport, send_socket, udp_server, ka>>]_vars

\* C10 witness: a join_network call has returned failure after its insert was
\* answered with an error status or not answered at all.
InsertFailureSeen ==
    \E p \in Peers :
        /\ pc[p] = "idle"
        /\ result[p].op = "join_network"
        /\ result[p].status = "fail"
        /\ FailedExchange(last_response[p])
        /\ ~server_status[p]

\* Peer p's driver calls join_network in this step.
JoinCalled(p) ==
    /\ pc[p] = "idle"
    /\ \/ pc'[p] = "join_stun"
       \/ result'[p].op = "join_network" /\ result'[p] # result[p]

\* Peer p's driver calls leave_network in this step.
LeaveCalled(p) ==
    /\ pc[p] = "idle"
    /\ \/ pc'[p] = "leave_delete"
       \/ result'[p].op = "leave_network" /\ result'[p] # result[p]

\* C11: a join_network call made while the runtime is joined returns success
\* at once and sends no insert, binds nothing and creates no keep-alive task;
\* afterwards the registry holds exactly one entry of this peer and the
\* endpoint is open.
JoinIsIdempotent ==
    [][\A p \in Peers :
         (JoinCalled(p) /\ server_status[p])
            => /\ pc'[p] = "idle"
               /\ result'[p].op = "join_network"
               /\ result'[p].status = "success"
               /\ UNCHANGED <<registry, written, node, server_status, transport, bound_port,
                              send_socket, udp_server, ka, ka_req>>
               /\ Cardinality(EntriesOf(registry', p, written')) = 1
               /\ transport'[p]]_vars

\* C11 witness: a join_network call made while joined has returned.
JoinedTwice ==
    \E p \in Peers :
        /\ pc[p] = "idle"
        /\ result[p] = Result("join_network", "success", "already_joined")
        /\ server_status[p]
        /\ transport[p]

\* C12: a leave_network call made while the runtime is not joined returns
\* success at once, sends no request to the registry and changes no state.
LeaveIsIdempotent ==
    [][\A p \in Peers :
         (LeaveCalled(p) /\ ~server_status[p])
            => /\ pc'[p] = "idle"
               /\ result'[p].op = "leave_network"
               /\ result'[p].status = "success"
               /\ last_response'[p] = NoResponse
               /\ UNCHANGED <<registry, written, node, server_status, transport, bound_port,
                              send_socket, udp_server, ka, ka_req, net, emitted>>]_vars

\* C12 witness: a leave_network call made after a leave_network that stopped
\* the endpoint has returned.
LeftTwice ==
    \E p \in Peers :
        /\ pc[p] = "idle"
        /\ result[p] = Result("leave_network", "success", "not_joined")
        /\ send_socket[p] = "closed"
        /\ ~server_status[p]

\* C13: in the step in which the endpoint start of a join_network call ends,
\* the call having come after a join_network and a leave_network that both
\* succeeded, with the STUN probe and the insert answered and the local port
\* free, the call returns success and the runtime is joined with an open
\* endpoint and a registry entry.
RejoinAfterLeaveSucceeds ==
    [][\A p \in Peers :
         (/\ pc[p] = "join_start" /\ pc'[p] = "idle"
          /\ send_socket[p] = "closed"
          /\ call[p].stun.ok
          /\ result'[p].msg # "local_port_in_use")
            => /\ result'[p].status = "success"
               /\ server_status'[p]
               /\ transport'[p]
               /\ EntriesOf(registry', p, written') # {}]_vars

\* Peer p's driver calls connect_to in this step.
ConnectCalled(p) == connects'[p] = connects[p] + 1

\* C14: in the step in which connect_to is called, a session is created only
\* if the peer record holds a public pair, the target holds a public pair and
\* the endpoint is open; otherwise the call returns the prerequisite failure
\* in that same step, no task is created and no datagram is emitted.
PreconditionFailureIsImmediate ==
    [][\A p \in Peers :
         ConnectCalled(p) =>
            LET s == connects'[p]
                created == session'[p][s].pc # "none"
            IN /\ created
                    => /\ node[p].public_ip # NoIp /\ node[p].public_port # NoPort
                       /\ session'[p][s].target.public_ip # NoIp
                       /\ session'[p][s].target.public_port # NoPort
                       /\ transport[p]
               /\ ~created
                    => /\ result'[p] = Result("connect_to", "fail", "prerequisites")
                       /\ UNCHANGED <<session, recv_task, punch_task, punches, net, emitted>>]_vars

\* C14 witness: connect_to has returned the prerequisite failure on a runtime
\* that is joined but whose record holds no public pair yet; no session
\* exists and nothing was emitted.
PreconditionFailureSeen ==
    \E p \in Peers :
        /\ result[p] = Result("connect_to", "fail", "prerequisites")
        /\ transport[p]
        /\ node[p].public_ip = NoIp
        /\ \A s \in Sessions : session[p][s].pc = "none"
        /\ emitted[p] = <<>>

\* Peer p's connect_to call s returns to its caller in this step.
ConnectReturned(p, s) == session[p][s].pc = "connect_wait" /\ session'[p][s].pc = "returned"

\* C15: in the step in which a connect_to call returns, no pong having been
\* delivered while it was suspended, its receive task has timed out, the call
\* returns a failure and its punch task is no longer able to emit.
TimeoutFailsAndStopsPunching ==
    [][\A p \in Peers : \A s \in Sessions :
         (ConnectReturned(p, s) /\ session[p][s].pong_at = 0)
            => /\ recv_task[p][s] = "timeout"
               /\ session'[p][s].status = "fail"
               /\ punch_task'[p][s] \notin {"ready", "sleeping"}]_vars

\* C16: when two connect_to calls of a peer toward the same target were both
\* suspended at the moment a pong from that target's public pair was
\* delivered, each of them, once returned, has returned success.
OverlappingSessionsAllSucceed ==
    \A p \in Peers : \A s, t \in Sessions :
        (/\ s # t
         /\ session[p][s].target = session[p][t].target
         /\ session[p][s].pong_at > 0
         /\ session[p][t].pong_at = session[p][s].pong_at
         /\ delivered[p][session[p][s].pong_at].src
              = <<session[p][s].target.public_ip, session[p][s].target.public_port>>
         /\ session[p][s].pc = "returned")
            => session[p][s].status = "success"

\* C17: in the step in which a connect_to call returns without success while
\* another call of the same peer is suspended, the other call's punch task is
\* left as it was, its receive task is still able to take a pong, and the
\* endpoint stays open.
TimeoutLeavesOtherSessions ==
    [][\A p \in Peers : \A s, t \in Sessions :
         (/\ s # t
          /\ ConnectReturned(p, s)
          /\ session'[p][s].status # "success"
          /\ session[p][t].pc = "connect_wait")
            => /\ punch_task'[p][t] = punch_task[p][t]
               /\ punch_task'[p][t] # "cancelled"
               /\ recv_task'[p][t] \in {"ready", "waiting"}
               /\ session'[p][t] = session[p][t]
               /\ transport'[p] /\ bound_port'[p] = bound_port[p]]_vars

\* Peer p's runtime puts a datagram on the wire in this step.
EmittedNow(p) == Len(emitted'[p]) = Len(emitted[p]) + 1

\* Peer p's driver calls send_message in this step.
SendCalled(p) == sends'[p] = sends[p] + 1 /\ result'[p].op = "send_message"

\* C18: in every step in which a runtime whose endpoint is open emits a
\* datagram, the datagram leaves from the local port the endpoint is bound to.
SingleSocket ==
    [][\A p \in Peers :
         (EmittedNow(p) /\ transport[p]) =>
            LET d == emitted'[p][Len(emitted'[p])] IN
            d.source_port = bound_port[p]]_vars

\* C19: after every step that leaves a runtime joined, its endpoint is open
\* on the record's local_port and no other socket of the runtime is bound;
\* and in the step in which join_network starts the endpoint, that port is
\* the source port the STUN probe of the call was sent from.
EndpointOnProbePort ==
    [][\A p \in Peers :
         server_status'[p] =>
            /\ transport'[p]
            /\ bound_port'[p] = node'[p].local_port
            /\ send_socket'[p] # "bound"
            /\ (pc[p] = "join_start" /\ call[p].stun.ok)
                  => bound_port'[p] = call[p].stun.source_port]_vars

\* C20: a send_message call made while no endpoint is open (before
\* join_network, or after leave_network has stopped it) returns an error and
\* puts nothing on the wire.
SendOutsideBoundFails ==
    [][\A p \in Peers :
         (SendCalled(p) /\ ~transport[p])
            => /\ result'[p].status = "error"
               /\ UNCHANGED <<net, emitted>>]_vars

\* The STUN probe of peer p's keep-alive task returns in this step.
ProbeReturned(p) == ka[p] = "stun" /\ ka'[p] # "stun"

\* Peer p's keep-alive tick ends in this step: the task goes to sleep.
TickEnded(p) == ka[p] \in {"stun", "put"} /\ ka'[p] = "ready"

\* C21: a keep-alive tick whose STUN probe fails changes neither the joined
\* flag, nor the peer record, nor the registry, nor the endpoint, sends no
\* registry update, and the task goes to sleep until the next tick.
KeepAliveSurvivesStunFailure ==
    [][\A p \in Peers :
         (ProbeReturned(p) /\ ~ka_stun'[p].ok)
            => /\ ka'[p] = "ready"
               /\ UNCHANGED <<server_status, node, registry, written, transport, bound_port,
                              send_socket, udp_server, ka_req>>]_vars

\* C21 witness: a joined runtime whose last keep-alive probe failed and whose
\* task is asleep, its endpoint still open.
StunFailureInTick ==
    \E p \in Peers :
        /\ ka_stun[p].seen /\ ~ka_stun[p].ok
        /\ ka[p] = "ready"
        /\ server_status[p] /\ transport[p]

\* C22: when the probe of a keep-alive tick returns a pair that is not the
\* stored one, the record is set to that pair and a PUT carrying it is sent in
\* the same step; when it returns the stored pair, the record is unchanged,
\* no PUT is sent and the task goes to sleep.
KeepAlivePublishesChangedPair ==
    [][\A p \in Peers :
         (ProbeReturned(p) /\ ka_stun'[p].ok) =>
            IF <<ka_stun'[p].ip, ka_stun'[p].port>> # <<node[p].public_ip, node[p].public_port>>
            THEN /\ node'[p].public_ip = ka_stun'[p].ip
                 /\ node'[p].public_port = ka_stun'[p].port
                 /\ ka'[p] = "put"
                 /\ ka_req'[p].public_ip = ka_stun'[p].ip
                 /\ ka_req'[p].public_port = ka_stun'[p].port
            ELSE /\ ka'[p] = "ready"
                 /\ UNCHANGED <<node, ka_req>>]_vars

\* C22 witness: a keep-alive tick has set the record to the pair its probe
\* returned and is waiting for the answer to the PUT that carries it.
ChangedPairPublished ==
    \E p \in Peers :
        /\ ka[p] = "put"
        /\ ka_stun[p].ok
        /\ node[p].public_ip = ka_stun[p].ip /\ node[p].public_port = ka_stun[p].port
        /\ ka_req[p].public_ip = ka_stun[p].ip /\ ka_req[p].public_port = ka_stun[p].port

\* C23: when the keep-alive tick of a joined runtime ends after a probe that
\* reported a port, the record's local_port and the port the endpoint is
\* bound to are that port.
KeepAliveMigratesPort ==
    [][\A p \in Peers :
         (TickEnded(p) /\ ka_stun'[p].ok /\ server_status'[p])
            => /\ node'[p].local_port = ka_stun'[p].port
               /\ transport'[p]
               /\ bound_port'[p] = ka_stun'[p].port]_vars

\* The event loop runs every task that is ready, the sleep of the keep-alive
\* task elapses, the STUN probe in the executor returns or raises, and every
\* HTTP request is answered or fails within the client's timeout.
Fairness ==
    \A p \in Peers :
        /\ WF_vars(KeepAliveTick(p))
        /\ WF_vars(KeepAliveDiscovered(p))
        /\ WF_vars(KeepAliveUpdateResponse(p))
        /\ WF_vars(LeaveDeleteResponse(p))

FairSpec == Spec /\ Fairness

\* C24: once leave_network has been invoked on a joined runtime, its
\* keep-alive task eventually finishes and never starts a tick again.
KeepAliveStopsAfterLeave ==
    \A p \in Peers : [](pc[p] = "leave_delete" => <>[](ka[p] = "done"))

\* C24 witness: leave_network has returned and the keep-alive task has
\* finished.
KeepAliveStopped ==
    \E p \in Peers :
        /\ ka[p] = "done"
        /\ result[p].op = "leave_network"
        /\ ~server_status[p]

\* The fields of a record that make its public pair.
PublicFields == {"public_ip", "public_port"}

\* C25: the body of a pending POST or PUT, the query of a pending DELETE and
\* every stored entry hold the public pair and nothing else.
OnlyPublicPairLeavesRuntime ==
    /\ \A p \in Peers :
         /\ pc[p] \in {"join_post", "leave_delete"} => DOMAIN call[p].data \subseteq PublicFields
         /\ ka[p] = "put" => DOMAIN ka_req[p] \subseteq PublicFields
    /\ \A e \in registry : DOMAIN e.data \subseteq PublicFields

\* Peer p's get_nodes call returns in this step.
GetNodesReturned(p) == pc[p] = "get_nodes" /\ pc'[p] = "idle"

\* Another user's request is handled by the registry in this step.
RequestHandled == requests' = requests + 1

\* The entries of a store that are kept under the key of record n.
EntriesFor(store, n) == {e \in store : e.key = NodeKey(n)}

\* C26: a get_nodes call that is answered returns exactly the stored records
\* whose public pair is not the pair of the own record, whatever their local
\* fields.
GetNodesFiltersByPublicPair ==
    [][\A p \in Peers :
         (GetNodesReturned(p) /\ last_response'[p] = 200) =>
            listed'[p] = {x \in LoadNodesFromStorage(registry) :
                            <<x.public_ip, x.public_port>>
                               # <<node[p].public_ip, node[p].public_port>>}]_vars

\* C28: a POST leaves exactly one entry under the key of its record, also
\* when that key was registered before, and touches no other key; a DELETE of
\* a key that is not registered is answered 204 and leaves the store as it was.
RegistryIdempotentByKey ==
    [][RequestHandled =>
         /\ request'.method = "POST" =>
               /\ request'.status = 201
               /\ Cardinality(EntriesFor(registry', request'.body)) = 1
               /\ registry' \ EntriesFor(registry', request'.body)
                     = registry \ EntriesFor(registry, request'.body)
         /\ (request'.method = "DELETE" /\ ~request'.existed) =>
               /\ request'.status = 204
               /\ registry' = registry]_vars

\* C28 witness: a POST for a key that was already registered with other local
\* fields has been answered, and the store holds one entry under that key.
InsertedTwice ==
    /\ request.method = "POST"
    /\ request.existed
    /\ request.body.local_ip = OtherLocalIp
    /\ Cardinality(EntriesFor(registry, request.body)) = 1

\* C29: a PUT is answered 200 and leaves exactly one entry under the key of
\* its record, whether or not the key was registered before.
PutUpserts ==
    [][(RequestHandled /\ request'.method = "PUT") =>
         /\ request'.status = 200
         /\ Cardinality(EntriesFor(registry', request'.body)) = 1]_vars

\* A datagram is handed to peer q's endpoint in this step.
DeliveredNow(q) == Len(delivered'[q]) = Len(delivered[q]) + 1

\* C27: a delivered datagram that is neither a punch nor a pong changes
\* nothing of the runtime and puts nothing on the wire, and a punch delivered
\* after such a datagram is answered in the same step by a pong to its sender.
HostilePayloadIgnored ==
    [][\A q \in Peers :
         DeliveredNow(q) =>
            LET d == delivered'[q][Len(delivered'[q])] IN
            /\ Kind(d.payload) = "other" =>
                  UNCHANGED <<server_status, node, transport, bound_port, send_socket, udp_server,
                              response_received, session, recv_task, punch_task, emitted>>
            /\ (/\ Kind(d.payload) = "punch"
                /\ \E i \in 1..Len(delivered[q]) : Kind(delivered[q][i].payload) = "other")
                  => /\ EmittedNow(q)
                     /\ emitted'[q][Len(emitted'[q])].payload = PongMessage
                     /\ emitted'[q][Len(emitted'[q])].dst = d.src]_vars

\* C30: every punch a runtime emits belongs to one of its connect_to calls
\* that has not returned, is within that call's 30 attempts and is addressed
\* to the public pair of the call's target; and once a call has returned, its
\* punch task is finished or cancelled, so it emits nothing more.
PunchesBoundedAndStopped ==
    [][\A p \in Peers :
         /\ (EmittedNow(p) /\ Kind(emitted'[p][Len(emitted'[p])].payload) = "punch") =>
               \E s \in Sessions :
                  /\ session[p][s].pc = "connect_wait"
                  /\ punches'[p][s] = punches[p][s] + 1
                  /\ punches'[p][s] <= PunchAttempts
                  /\ emitted'[p][Len(emitted'[p])].dst
                        = <<session[p][s].target.public_ip, session[p][s].target.public_port>>
         /\ \A s \in Sessions :
               session'[p][s].pc = "returned" => punch_task'[p][s] \notin {"ready", "sleeping"}]_vars

\* C30 witness: a connect_to call has returned after one punch to its
\* target's pair, and its punch task, suspended in its sleep, was cancelled.
PunchTaskCancelled ==
    \E p \in Peers, s \in Sessions :
        /\ session[p][s].pc = "returned"
        /\ punches[p][s] = 1
        /\ punch_task[p][s] = "cancelled"
        /\ \E i \in 1..Len(emitted[p]) :
              /\ Kind(emitted[p][i].payload) = "punch"
              /\ emitted[p][i].dst
                    = <<session[p][s].target.public_ip, session[p][s].target.public_port>>

\* A step of one of peer p's connect_to calls: the call itself, a run of its
\* receive or punch task, or its return.
ConnectStep(p) ==
    \/ connects'[p] # connects[p]
    \/ recv_task'[p] # recv_task[p]
    \/ punch_task'[p] # punch_task[p]
    \/ \E s \in Sessions : session'[p][s].pc # session[p][s].pc

\* C31: no step of a connect_to call, whatever the call's outcome, changes
\* the joined flag, the peer record, the endpoint and its port, the state of
\* the send socket or the registry.
ConnectToLeavesRuntimeUnchanged ==
    [][\A p \in Peers :
         ConnectStep(p) =>
            /\ server_status'[p] = server_status[p]
            /\ node'[p] = node[p]
            /\ transport'[p] = transport[p]
            /\ bound_port'[p] = bound_port[p]
            /\ udp_server'[p] = udp_server[p]
            /\ send_socket'[p] = send_socket[p]
            /\ UNCHANGED <<registry, written>>]_vars

\* C31 witness: a connect_to call has returned without success after its
\* punch, and the runtime is still joined with its endpoint open.
ConnectFailedEndpointOpen ==
    \E p \in Peers, s \in Sessions :
        /\ session[p][s].pc = "returned"
        /\ session[p][s].status # "success"
        /\ punches[p][s] = 1
        /\ server_status[p] /\ transport[p] /\ bound_port[p] # NoPort

\* The punch grammar: punch:<ip>:<port> for some public pair.
PunchGrammar(message) ==
    \E pair \in ListenSources : message = PunchMessage(Node(pair[1], pair[2]))

\* A message is handed to the run of _listen_for_connection in this step.
ListenReceived == listen'.received = listen.received + 1

ConnectWaitsForSignal ==
    [][\A p \in Peers : \A s \in Sessions :
         ConnectReturned(p, s) =>
            /\ recv_task[p][s] \in {"success", "timeout"}
            /\ session[p][s].pong_at > 0 => session'[p][s].status = "success"]_vars

\* The registry entries stored under the key of peer p's record.
OwnEntries(store, p) == {e \in store : e.key = NodeKey(node[p])}

\* C36: when the PUT of a keep-alive tick that changed the public pair has
\* been answered by a registry that is up, the registry holds one entry under
\* the new pair, carrying it, and no entry under any other key this peer has
\* registered.
KeepAliveReplacesEntry ==
    [][\A p \in Peers :
         (ka[p] = "put" /\ ka'[p] = "ready" /\ p \notin Faulty) =>
            /\ Cardinality(OwnEntries(registry', p)) = 1
            /\ \A e \in OwnEntries(registry', p) :
                  /\ e.data.public_ip = node[p].public_ip
                  /\ e.data.public_port = node[p].public_port
            /\ \A e \in registry' :
                  e.key \in written[p] => e.key = NodeKey(node[p])]_vars

\* leave_network has run to its end on peer p: the runtime was joined once
\* and is not any more.
LeaveReturned(p) == ka[p] # "none" /\ ~server_status[p]

\* C37: once leave_network has returned success, no step of the keep-alive
\* task changes the peer record or sends a PUT.
KeepAliveQuietAfterLeave ==
    [][\A p \in Peers :
         (LeaveReturned(p) /\ send_socket[p] = "closed") =>
            /\ node'[p] = node[p]
            /\ ka'[p] = "put" => ka[p] = "put"]_vars

\* C38: once leave_network has returned, with success or with a registry
\* error, the runtime puts no datagram on the wire.
SilentAfterLeave ==
    [][\A p \in Peers : LeaveReturned(p) => ~EmittedNow(p)]_vars

====
